---- MODULE Spec2Model ----
(***************************************************************************)
(* Model of the batch document-extraction pipeline of src/main.py:         *)
(* scan_documents (the batch coordinator) and process_single_document      *)
(* (the per-file processor), with the temp directory "tmp" and the remote  *)
(* file service as shared state.  Strings are sequences of one-character   *)
(* strings, so that os.path.splitext, str.lower, str.strip, startswith     *)
(* and slicing are computed as the code computes them.                     *)
(***************************************************************************)
EXTENDS Integers, Sequences, FiniteSets, TLC

\* ------------------------------------------------------------------ bounds
\* Largest number of uploaded file parts in one request.
MaxFiles == 2

\* The requests the web server may run; Spec runs request 1 alone.
Reqs == {1, 2}

\* Values of str(uuid.uuid4())[:8] (main.py:77).
Tokens == {"u1", "u2"}

\* --------------------------------------------------------------- filenames
\* UploadFile.filename values offered to the endpoint.  A missing filename
\* (None) and "" are both falsy in Python and are both the empty sequence.
NameEmpty == << >>
NameBlank == <<" ">>
NamePdf == <<"a", ".", "p", "d", "f">>
NamePngUpper == <<"c", ".", "P", "N", "G">>
NameTxt == <<"d", ".", "t", "x", "t">>
NameDotfile == <<".", "p", "d", "f">>

Names == {NameEmpty, NameBlank, NamePdf, NamePngUpper, NameTxt, NameDotfile}

\* ------------------------------------------------------------ string helpers
\* s[i:] and s[:-n] of Python, on sequences (i is a 0-based offset).
DropFirst(s, i) == IF i >= Len(s) THEN << >> ELSE SubSeq(s, i + 1, Len(s))

DropLast(s, n) == IF n >= Len(s) THEN << >> ELSE SubSeq(s, 1, Len(s) - n)

\* str.startswith / str.endswith.
StartsWith(s, p) == Len(s) >= Len(p) /\ SubSeq(s, 1, Len(p)) = p

EndsWith(s, p) == Len(s) >= Len(p) /\ SubSeq(s, Len(s) - Len(p) + 1, Len(s)) = p

\* The characters str.strip() removes.
Whitespace == {" ", "\n", "\t"}

RECURSIVE LStrip(_)
LStrip(s) == IF s # << >> /\ Head(s) \in Whitespace THEN LStrip(Tail(s)) ELSE s

RECURSIVE RStrip(_)
RStrip(s) == IF s # << >> /\ s[Len(s)] \in Whitespace THEN RStrip(DropLast(s, 1)) ELSE s

\* str.strip().
Strip(s) == RStrip(LStrip(s))

\* str.lower() on the characters that occur in the filenames.
LowerChar(c) == CASE c = "P" -> "p"
                  [] c = "N" -> "n"
                  [] c = "G" -> "g"
                  [] OTHER -> c

Lower(s) == [i \in 1..Len(s) |-> LowerChar(s[i])]

\* str.rfind(c): the 1-based position of the last c in s, 0 when absent
\* (Python's -1 .. len-1 shifted by one).
RFind(s, c) == IF \E i \in 1..Len(s) : s[i] = c
               THEN CHOOSE i \in 1..Len(s) : s[i] = c /\ \A j \in (i+1)..Len(s) : s[j] # c
               ELSE 0

\* os.path.splitext(p)[1] (posixpath: sep "/", extsep "."): the text from
\* the last dot, unless that dot is not after the last separator or only
\* dots precede it in the basename.
SplitExt(p) ==
    LET sepIndex == RFind(p, "/")
        dotIndex == RFind(p, ".")
    IN IF dotIndex > sepIndex
          /\ \E k \in (sepIndex + 1)..(dotIndex - 1) : p[k] # "."
       THEN DropFirst(p, dotIndex - 1)
       ELSE << >>

\* file_ext = os.path.splitext(file.filename)[1].lower()  (main.py:80, 181)
FileExt(filename) == Lower(SplitExt(filename))

ExtPdf == <<".", "p", "d", "f">>
ExtJpg == <<".", "j", "p", "g">>
ExtJpeg == <<".", "j", "p", "e", "g">>
ExtPng == <<".", "p", "n", "g">>

\* allowed_extensions (main.py:179)
allowed_extensions == {ExtPdf, ExtJpg, ExtJpeg, ExtPng}

\* ------------------------------------------------------ remote responses
\* Values of response.text returned by model.generate_content (main.py:97).
\* The backquote character (a string of the module cannot hold it).
BQ == "backquote"

TextObject == <<"{", "}">>
TextFencedJson == <<BQ, BQ, BQ, "j", "s", "o", "n", "\n", "{", "}", "\n", BQ, BQ, BQ>>
TextFenced == <<" ", BQ, BQ, BQ, "\n", "{", "}", "\n", BQ, BQ, BQ, "\n">>
TextArray == <<"[", "]">>
TextProse == <<"o", "k">>

RespTexts == {TextObject, TextFencedJson, TextFenced, TextArray, TextProse}

Fence == <<BQ, BQ, BQ>>
FenceJson == <<BQ, BQ, BQ, "j", "s", "o", "n">>

\* The object {"k": "```"}: a JSON object text with a fence inside a string.
TextMember == <<"{", "\"", "k", "\"", ":", "\"", BQ, BQ, BQ, "\"", "}">>

\* The JSON object texts among the responses.
ObjectTexts == {TextObject, TextMember}

\* The ways a response carries an object text T: bare or between an opening
\* fence (plain or tagged json) and a closing fence, with or without the
\* newlines after the opening and before the closing fence, and with
\* whitespace around the whole.
Pads == {<< >>, <<" ">>, <<"\n">>, <<"\t", "\n">>}

Wrapped(T) ==
    {pre \o T \o post : pre \in Pads, post \in Pads}
    \cup {pre \o open \o nl \o T \o nl \o Fence \o post :
             pre \in Pads, post \in Pads, open \in {Fence, FenceJson},
             nl \in {<< >>, <<"\n">>}}

\* Responses with half a fence, a fence and nothing else, two fences, a tag
\* that is not json, and no text.
OddTexts ==
    {<< >>, <<" ">>, Fence, FenceJson, FenceJson \o Fence, Fence \o Fence,
     Fence \o <<"\n">> \o TextObject, FenceJson \o <<"\n">> \o TextObject,
     TextObject \o <<"\n">> \o Fence,
     Fence \o <<"j", "s", "\n">> \o TextObject \o <<"\n">> \o Fence,
     Fence \o Fence \o TextObject \o Fence \o Fence,
     FenceJson \o <<"\n">> \o TextArray \o <<"\n">> \o Fence,
     TextArray, TextProse}

\* The values of response.text the normalisation is run on.
NormTexts == UNION {Wrapped(T) : T \in ObjectTexts} \cup OddTexts

\* The fence tests in the other order: the plain fence first.
NormalizeResponsePlainFirst(text) ==
    LET t0 == Strip(text)
        t1 == IF StartsWith(t0, Fence) THEN DropFirst(t0, 3)
              ELSE IF StartsWith(t0, FenceJson) THEN DropFirst(t0, 7)
              ELSE t0
        t2 == IF EndsWith(t1, Fence) THEN DropLast(t1, 3) ELSE t1
    IN Strip(t2)

\* main.py:101-109: the text handed to json.loads.
NormalizeResponse(text) ==
    LET t0 == Strip(text)
        t1 == IF StartsWith(t0, FenceJson) THEN DropFirst(t0, 7)
              ELSE IF StartsWith(t0, Fence) THEN DropFirst(t0, 3)
              ELSE t0
        t2 == IF EndsWith(t1, Fence) THEN DropLast(t1, 3) ELSE t1
    IN Strip(t2)

\* json.loads on the texts above: the parsed value, or a JSONDecodeError.
JsonObject == [type |-> "object"]
JsonArray == [type |-> "array"]
JsonMember == [type |-> "object", k |-> Fence]
JsonLoads(text) ==
    IF text = TextObject THEN [ok |-> TRUE, value |-> JsonObject]
    ELSE IF text = TextMember THEN [ok |-> TRUE, value |-> JsonMember]
    ELSE IF text = TextArray THEN [ok |-> TRUE, value |-> JsonArray]
    ELSE [ok |-> FALSE, value |-> [type |-> "JSONDecodeError"]]

\* ------------------------------------------------------------------- state
VARIABLES
    files,        \* files[r]: the filenames of the UploadFile parts of request r, in order
    gemini_only,  \* gemini_only[r]: the form field of request r
    rq,           \* rq[r]: the locals of scan_documents and of the running process_single_document
    tmp,          \* the paths that exist in the shared directory "tmp"
    remote,       \* the file handles alive at the remote service
    cnt           \* cnt[r]: per uploaded file, the calls made on it and what the environment did

vars == <<files, gemini_only, rq, tmp, remote, cnt>>

\* Positions of the parts of request r (1-based; part p is files[r][p]).
Parts(r) == 1..Len(files[r])

\* Values of locals that are not bound yet.
NoPath == [token |-> "", index |-> -1, ext |-> << >>]
NoHandle == [req |-> 0, index |-> -1]
NoReturn == [pending |-> TRUE]
NoResponse == [status |-> 0]

\* f"tmp/{temp_id}{file_ext}" with temp_id = f"{token}_{file_index}" (main.py:77-81)
TempFilePath(token, file_index, file_ext) ==
    [token |-> token, index |-> file_index, ext |-> file_ext]

\* The locals of process_single_document before it is called / after it returned.
IdleLocals == [temp_file_path |-> NoPath, file_ext |-> << >>, uploaded_file |-> NoHandle,
               response_text |-> << >>, ret |-> NoReturn]

\* The counters of one request: one entry per uploaded part.
ZeroCnt(n) ==
    [op \in {"process", "read", "open", "upload", "generate", "delete_file", "remove"}
        |-> [p \in 1..n |-> 0]]

\* What the environment did to each part: the step that failed ("none" when
\* no step failed so far), and whether os.remove failed.
NoEnv(n) == [p \in 1..n |-> [fault |-> "none", remove_failed |-> FALSE]]

\* All sequences over S of length at most n.
SeqsUpTo(S, n) == UNION {[1..k -> S] : k \in 0..n}

\* The request r has not been received (Spec runs request 1 only).
InitRq(active) ==
    [pc |-> IF active THEN "validate" ELSE "off",
     valid_files |-> << >>, file_index |-> 0, results |-> << >>, errors |-> << >>,
     response |-> NoResponse, loc |-> IdleLocals]

InitShared ==
    /\ tmp = {}
    /\ remote = {}

Init ==
    /\ files \in [Reqs -> SeqsUpTo(Names, MaxFiles)]
    /\ \A r \in Reqs \ {1} : files[r] = << >>
    /\ gemini_only \in [Reqs -> BOOLEAN]
    /\ \A r \in Reqs \ {1} : gemini_only[r] = FALSE
    /\ rq = [r \in Reqs |-> InitRq(r = 1)]
    /\ cnt = [r \in Reqs |-> [ops |-> ZeroCnt(Len(files[r])), env |-> NoEnv(Len(files[r]))]]
    /\ InitShared

\* ---------------------------------------------------------- scan_documents
\* main.py:169: not files or all(not file.filename for file in files)
NoFilesUploaded(fs) == fs = << >> \/ \A i \in 1..Len(fs) : fs[i] = << >>

\* The filter without the strip().
IsValidFilenameNoStrip(filename) == filename # << >>

\* main.py:173: the filter of valid_files, on one filename.
IsValidFilename(filename) == filename # << >> /\ Strip(filename) # << >>

\* main.py:173: valid_files, as the positions of the retained parts, in order.
ValidFiles(fs) == SelectSeq([i \in 1..Len(fs) |-> i], LAMBDA i : IsValidFilename(fs[i]))

\* FirstUnsupported looking at the first retained file only.
FirstUnsupportedHeadOnly(fs, valid) ==
    IF valid # << >> /\ FileExt(fs[valid[1]]) \notin allowed_extensions THEN 1 ELSE 0

\* main.py:180-182: the first entry of valid_files whose extension is not
\* allowed (1-based), 0 when every extension is allowed.
FirstUnsupported(fs, valid) ==
    LET bad == {k \in 1..Len(valid) : FileExt(fs[valid[k]]) \notin allowed_extensions}
    IN IF bad = {} THEN 0 ELSE CHOOSE k \in bad : \A j \in bad : k <= j

\* raise HTTPException(status_code=400, detail=...)  (main.py:170, 176, 183)
HTTPException(msg, ext, allowed) ==
    [status |-> 400, detail |-> [msg |-> msg, ext |-> ext, allowed |-> allowed]]

\* main.py:166-190: validation, up to the first iteration of the loop.
Validate(r) ==
    /\ rq[r].pc = "validate"
    /\ LET fs == files[r]
           valid == ValidFiles(fs)
           bad == FirstUnsupported(fs, valid)
       IN rq' = [rq EXCEPT ![r] =
            IF NoFilesUploaded(fs)
            THEN [@ EXCEPT !.pc = "rejected",
                           !.response = HTTPException("No valid files uploaded", << >>, {})]
            ELSE IF valid = << >>
            THEN [@ EXCEPT !.pc = "rejected",
                           !.response = HTTPException("No valid files to process", << >>, {})]
            ELSE IF bad # 0
            THEN [@ EXCEPT !.pc = "rejected",
                           !.response = HTTPException("Unsupported file type",
                                                      FileExt(fs[valid[bad]]),
                                                      allowed_extensions)]
            ELSE [@ EXCEPT !.pc = "loop", !.valid_files = valid, !.file_index = 0,
                           !.results = << >>, !.errors = << >>]]
    /\ UNCHANGED <<files, gemini_only, tmp, remote, cnt>>

\* The loop running over files instead of valid_files.
CurPosUnfiltered(r) == rq[r].file_index + 1

\* The part being processed, and its filename (file.filename).
CurPos(r) == rq[r].valid_files[rq[r].file_index + 1]

CurFilename(r) == files[r][CurPos(r)]

\* ------------------------------------------------- process_single_document
\* main.py:112-118 (processing_time is a clock reading and is left out).
FileResult(file_index, filename, data) ==
    [file_index |-> file_index, filename |-> filename,
     processing_method |-> "gemini_direct", data |-> data]

\* FileError with a 1-based index.
FileErrorOneBased(file_index, filename, error) ==
    [file_index |-> file_index + 1, filename |-> filename, error |-> error]

\* main.py:128
FileError(file_index, filename, error) ==
    [file_index |-> file_index, filename |-> filename, error |-> error]

\* main.py:121: f"Direct Gemini processing failed: {str(e)}"
DirectFailed(e) == <<"Direct Gemini processing failed: ">> \o e

\* main.py:123-125
OnlyPdfSupported(file_ext) ==
    <<"Only PDF files are supported for direct Gemini processing. Unsupported file type: ">>
        \o file_ext

\* Caught reporting the scratch name instead of the uploaded file's name.
CaughtReportsTempName(r, e) ==
    [rq[r] EXCEPT !.pc = "finally",
                  !.loc.ret = FileError(rq[r].file_index, <<"t", "m", "p">>, e)]

\* main.py:127-128: an exception with message e leaves the try block; the
\* return value is bound and the finally block runs next.
Caught(r, e) ==
    [rq[r] EXCEPT !.pc = "finally",
                  !.loc.ret = FileError(rq[r].file_index, CurFilename(r), e)]

\* One more call of kind op on the current part, the environment failing it or not.
Counted(r, op, fault) ==
    [cnt EXCEPT ![r].ops[op][CurPos(r)] = @ + 1,
                ![r].env[CurPos(r)].fault = IF fault THEN op ELSE @]

\* main.py:192-194 and 76-81: the loop takes the next file and calls
\* process_single_document, which binds temp_id, file_ext, temp_file_path.
BeginFile(r) ==
    /\ rq[r].pc = "loop"
    /\ rq[r].file_index < Len(rq[r].valid_files)
    /\ \E token \in Tokens :
         LET file_ext == FileExt(CurFilename(r))
         IN rq' = [rq EXCEPT ![r] =
              [@ EXCEPT !.pc = "read",
                        !.loc = [IdleLocals EXCEPT
                                   !.file_ext = file_ext,
                                   !.temp_file_path =
                                       TempFilePath(token, rq[r].file_index, file_ext)]]]
    /\ cnt' = Counted(r, "process", FALSE)
    /\ UNCHANGED <<files, gemini_only, tmp, remote>>

\* ReadUpload reading the bodies of all the files still to come as well.
ReadUploadPrefetch(r) ==
    /\ rq[r].pc = "read"
    /\ \E ok \in BOOLEAN :
         /\ rq' = [rq EXCEPT ![r] =
                     IF ok THEN [@ EXCEPT !.pc = "write"] ELSE Caught(r, <<"read error">>)]
         /\ cnt' = [Counted(r, "read", ~ok) EXCEPT ![r].ops["read"] =
                       [p \in DOMAIN @ |->
                           IF \E k \in (rq[r].file_index + 2)..Len(rq[r].valid_files) :
                                  rq[r].valid_files[k] = p
                           THEN @[p] + 1 ELSE @[p]]]
    /\ UNCHANGED <<files, gemini_only, tmp, remote>>

\* main.py:85: content = await file.read()
ReadUpload(r) ==
    /\ rq[r].pc = "read"
    /\ \E ok \in BOOLEAN :
         /\ rq' = [rq EXCEPT ![r] =
                     IF ok THEN [@ EXCEPT !.pc = "write"] ELSE Caught(r, <<"read error">>)]
         /\ cnt' = Counted(r, "read", ~ok)
    /\ UNCHANGED <<files, gemini_only, tmp, remote>>

\* main.py:86-87: open(temp_file_path, "wb") creates the file, f.write fills it.
WriteScratch(r) ==
    /\ rq[r].pc = "write"
    /\ \E outcome \in {"written", "open fails", "write fails"} :
         /\ rq' = [rq EXCEPT ![r] =
                     IF outcome = "written" THEN [@ EXCEPT !.pc = "dispatch"]
                     ELSE Caught(r, <<outcome>>)]
         /\ tmp' = IF outcome = "open fails" THEN tmp
                   ELSE tmp \cup {rq[r].loc.temp_file_path}
         /\ cnt' = [Counted(r, "open", outcome = "open fails")
                       EXCEPT ![r].env[CurPos(r)].fault =
                                  IF outcome = "write fails" THEN "write" ELSE @]
    /\ UNCHANGED <<files, gemini_only, remote>>

\* The dispatch sending every allowed extension to the remote service.
IsPdfOrImage(file_ext) == file_ext \in allowed_extensions

\* main.py:89: if file_ext == ".pdf"
IsPdf(file_ext) == file_ext = ExtPdf

\* main.py:89, 122-125: a file that is not a PDF is refused.
RejectNonPdf(r) ==
    /\ rq[r].pc = "dispatch"
    /\ ~IsPdf(rq[r].loc.file_ext)
    /\ rq' = [rq EXCEPT ![r] = Caught(r, OnlyPdfSupported(rq[r].loc.file_ext))]
    /\ UNCHANGED <<files, gemini_only, tmp, remote, cnt>>

\* The name the remote service gives the file uploaded for file_index of r.
RemoteHandle(r, file_index) == [req |-> r, index |-> file_index]

\* UploadFile sending the file to the remote service only when gemini_only
\* is set, and giving up on the file otherwise.
UploadFileWhenGeminiOnly(r) ==
    /\ rq[r].pc = "dispatch"
    /\ IsPdf(rq[r].loc.file_ext)
    /\ IF gemini_only[r]
       THEN \E ok \in BOOLEAN :
              /\ rq' = [rq EXCEPT ![r] =
                          IF ok THEN [@ EXCEPT !.pc = "generate",
                                               !.loc.uploaded_file =
                                                   RemoteHandle(r, rq[r].file_index)]
                          ELSE Caught(r, DirectFailed(<<"upload error">>))]
              /\ remote' = IF ok THEN remote \cup {RemoteHandle(r, rq[r].file_index)}
                           ELSE remote
              /\ cnt' = Counted(r, "upload", ~ok)
       ELSE /\ rq' = [rq EXCEPT ![r] = Caught(r, DirectFailed(<<"no local processing">>))]
            /\ UNCHANGED <<remote, cnt>>
    /\ UNCHANGED <<files, gemini_only, tmp>>

\* main.py:89-94: uploaded_file = genai.upload_file(temp_file_path, ...)
UploadFile(r) ==
    /\ rq[r].pc = "dispatch"
    /\ IsPdf(rq[r].loc.file_ext)
    /\ \E ok \in BOOLEAN :
         /\ rq' = [rq EXCEPT ![r] =
                     IF ok THEN [@ EXCEPT !.pc = "generate",
                                          !.loc.uploaded_file =
                                              RemoteHandle(r, rq[r].file_index)]
                     ELSE Caught(r, DirectFailed(<<"upload error">>))]
         /\ remote' = IF ok THEN remote \cup {RemoteHandle(r, rq[r].file_index)} ELSE remote
         /\ cnt' = Counted(r, "upload", ~ok)
    /\ UNCHANGED <<files, gemini_only, tmp>>

\* main.py:95-97: response = model.generate_content([uploaded_file, prompt]),
\* the service answering with one of texts or failing.
GenerateContentFrom(r, texts) ==
    /\ rq[r].pc = "generate"
    /\ \/ \E text \in texts :
            /\ rq' = [rq EXCEPT ![r] = [@ EXCEPT !.pc = "delete_file",
                                                 !.loc.response_text = text]]
            /\ cnt' = Counted(r, "generate", FALSE)
       \/ /\ rq' = [rq EXCEPT ![r] = Caught(r, DirectFailed(<<"generate error">>))]
          /\ cnt' = Counted(r, "generate", TRUE)
    /\ UNCHANGED <<files, gemini_only, tmp, remote>>

GenerateContent(r) == GenerateContentFrom(r, RespTexts)

\* main.py:98: genai.delete_file(uploaded_file.name), inside the inner try.
DeleteFile(r) ==
    /\ rq[r].pc = "delete_file"
    /\ \E ok \in BOOLEAN :
         /\ rq' = [rq EXCEPT ![r] =
                     IF ok THEN [@ EXCEPT !.pc = "parse"]
                     ELSE Caught(r, DirectFailed(<<"delete error">>))]
         /\ remote' = IF ok THEN remote \ {rq[r].loc.uploaded_file} ELSE remote
         /\ cnt' = Counted(r, "delete_file", ~ok)
    /\ UNCHANGED <<files, gemini_only, tmp>>

\* main.py:100-121: normalise, json.loads, build the result.
ParseResponse(r) ==
    /\ rq[r].pc = "parse"
    /\ LET parsed == JsonLoads(NormalizeResponse(rq[r].loc.response_text))
       IN /\ rq' = [rq EXCEPT ![r] =
                      IF parsed.ok
                      THEN [@ EXCEPT !.pc = "finally",
                                     !.loc.ret = FileResult(rq[r].file_index, CurFilename(r),
                                                            parsed.value)]
                      ELSE Caught(r, DirectFailed(<<"json decode error">>))]
          /\ cnt' = [cnt EXCEPT ![r].env[CurPos(r)].fault =
                                   IF parsed.ok THEN @ ELSE "parse"]
    /\ UNCHANGED <<files, gemini_only, tmp, remote>>

\* Cleanup placed after the success path only: nothing is removed once a
\* step has failed.
CleanupOnSuccessOnly(r) ==
    /\ rq[r].pc = "finally"
    /\ LET path == rq[r].loc.temp_file_path
       IN IF path \in tmp /\ "error" \notin DOMAIN rq[r].loc.ret
          THEN \E removed \in BOOLEAN :
                 /\ tmp' = IF removed THEN tmp \ {path} ELSE tmp
                 /\ cnt' = [cnt EXCEPT ![r].ops["remove"][CurPos(r)] = @ + 1,
                                       ![r].env[CurPos(r)].remove_failed = ~removed]
          ELSE UNCHANGED <<tmp, cnt>>
    /\ rq' = [rq EXCEPT ![r] = [@ EXCEPT !.pc = "return"]]
    /\ UNCHANGED <<files, gemini_only, remote>>

\* Cleanup letting a failed os.remove replace the value being returned.
CleanupFailureSurfaces(r) ==
    /\ rq[r].pc = "finally"
    /\ LET path == rq[r].loc.temp_file_path
       IN IF path \in tmp
          THEN \E removed \in BOOLEAN :
                 /\ tmp' = IF removed THEN tmp \ {path} ELSE tmp
                 /\ cnt' = [cnt EXCEPT ![r].ops["remove"][CurPos(r)] = @ + 1,
                                       ![r].env[CurPos(r)].remove_failed = ~removed]
                 /\ rq' = [rq EXCEPT ![r] =
                             [@ EXCEPT !.pc = "return",
                                       !.loc.ret = IF removed THEN @
                                                   ELSE FileError(rq[r].file_index,
                                                                  CurFilename(r),
                                                                  <<"remove error">>)]]
          ELSE /\ UNCHANGED <<tmp, cnt>>
               /\ rq' = [rq EXCEPT ![r] = [@ EXCEPT !.pc = "return"]]
    /\ UNCHANGED <<files, gemini_only, remote>>

\* main.py:130-136: the finally block; a failing os.remove is ignored.
Cleanup(r) ==
    /\ rq[r].pc = "finally"
    /\ LET path == rq[r].loc.temp_file_path
       IN IF path \in tmp
          THEN \E removed \in BOOLEAN :
                 /\ tmp' = IF removed THEN tmp \ {path} ELSE tmp
                 /\ cnt' = [cnt EXCEPT ![r].ops["remove"][CurPos(r)] = @ + 1,
                                       ![r].env[CurPos(r)].remove_failed = ~removed]
          ELSE UNCHANGED <<tmp, cnt>>
    /\ rq' = [rq EXCEPT ![r] = [@ EXCEPT !.pc = "return"]]
    /\ UNCHANGED <<files, gemini_only, remote>>

\* An insert at the front instead of an append.
ListPrepend(list, entry) == <<entry>> \o list

\* list.append (main.py:197, 205)
ListAppend(list, entry) == Append(list, entry)

\* Collect leaving the loop at the first error.
CollectStopsAtFirstError(r) ==
    /\ rq[r].pc = "return"
    /\ LET result == rq[r].loc.ret
       IN rq' = [rq EXCEPT ![r] =
            [@ EXCEPT !.pc = "loop",
                      !.file_index = IF "error" \in DOMAIN result
                                     THEN Len(rq[r].valid_files) ELSE @ + 1,
                      !.loc = IdleLocals,
                      !.errors = IF "error" \in DOMAIN result
                                 THEN ListAppend(@, FileError(rq[r].file_index,
                                                              CurFilename(r), result.error))
                                 ELSE @,
                      !.results = IF "error" \in DOMAIN result THEN @
                                  ELSE ListAppend(@, result)]]
    /\ UNCHANGED <<files, gemini_only, tmp, remote, cnt>>

\* Collect calling process_single_document a second time on a file that failed.
CollectRetriesOnce(r) ==
    /\ rq[r].pc = "return"
    /\ LET result == rq[r].loc.ret
           retry == /\ "error" \in DOMAIN result
                    /\ cnt[r].ops["process"][CurPos(r)] < 2
       IN rq' = [rq EXCEPT ![r] =
            [@ EXCEPT !.pc = "loop",
                      !.file_index = IF retry THEN @ ELSE @ + 1,
                      !.loc = IdleLocals,
                      !.errors = IF "error" \in DOMAIN result /\ ~retry
                                 THEN ListAppend(@, FileError(rq[r].file_index,
                                                              CurFilename(r), result.error))
                                 ELSE @,
                      !.results = IF "error" \in DOMAIN result THEN @
                                  ELSE ListAppend(@, result)]]
    /\ UNCHANGED <<files, gemini_only, tmp, remote, cnt>>

\* main.py:194-210: the value process_single_document returned is filed
\* under errors or results, and the loop moves on.  The handler of lines
\* 207-210 is never entered: process_single_document returns from its own
\* except clause (main.py:127-128) and none of its statements outside the
\* try block raises.
Collect(r) ==
    /\ rq[r].pc = "return"
    /\ LET result == rq[r].loc.ret
       IN rq' = [rq EXCEPT ![r] =
            [@ EXCEPT !.pc = "loop",
                      !.file_index = @ + 1,
                      !.loc = IdleLocals,
                      !.errors = IF "error" \in DOMAIN result
                                 THEN ListAppend(@, FileError(rq[r].file_index,
                                                              CurFilename(r), result.error))
                                 ELSE @,
                      !.results = IF "error" \in DOMAIN result THEN @
                                  ELSE ListAppend(@, result)]]
    /\ UNCHANGED <<files, gemini_only, tmp, remote, cnt>>

\* Summary with the key "errors" always present.
SummaryAlwaysErrors(valid_files, results, errors) ==
    [total_files |-> Len(valid_files),
     successful_extractions |-> Len(results),
     failed_extractions |-> Len(errors),
     results |-> results,
     errors |-> errors]

\* main.py:215-224: the response dict; the key "errors" only when errors is
\* not empty (total_processing_time is a clock reading and is left out).
Summary(valid_files, results, errors) ==
    LET base == [total_files |-> Len(valid_files),
                 successful_extractions |-> Len(results),
                 failed_extractions |-> Len(errors),
                 results |-> results]
    IN IF errors # << >>
       THEN [k \in DOMAIN base \cup {"errors"} |-> IF k = "errors" THEN errors ELSE base[k]]
       ELSE base

\* main.py:212-226: the loop is over, the summary is returned.
Respond(r) ==
    /\ rq[r].pc = "loop"
    /\ rq[r].file_index = Len(rq[r].valid_files)
    /\ rq' = [rq EXCEPT ![r] =
                [@ EXCEPT !.pc = "done",
                          !.response = [status |-> 200,
                                        content |-> Summary(rq[r].valid_files, rq[r].results,
                                                            rq[r].errors)]]]
    /\ UNCHANGED <<files, gemini_only, tmp, remote, cnt>>

Next ==
    \E r \in Reqs :
        \/ Validate(r)
        \/ BeginFile(r)
        \/ ReadUpload(r)
        \/ WriteScratch(r)
        \/ RejectNonPdf(r)
        \/ UploadFile(r)
        \/ GenerateContent(r)
        \/ DeleteFile(r)
        \/ ParseResponse(r)
        \/ Cleanup(r)
        \/ Collect(r)
        \/ Respond(r)

Spec == Init /\ [][Next]_vars

\* One request with one PDF, the remote service answering with any of
\* NormTexts: the specification the normalisation is checked under.
InitNorm ==
    /\ files = [r \in Reqs |-> IF r = 1 THEN <<NamePdf>> ELSE << >>]
    /\ gemini_only = [r \in Reqs |-> FALSE]
    /\ rq = [r \in Reqs |-> InitRq(r = 1)]
    /\ cnt = [r \in Reqs |-> [ops |-> ZeroCnt(Len(files[r])), env |-> NoEnv(Len(files[r]))]]
    /\ InitShared

NextNorm ==
    \E r \in Reqs :
        \/ Validate(r)
        \/ BeginFile(r)
        \/ ReadUpload(r)
        \/ WriteScratch(r)
        \/ UploadFile(r)
        \/ GenerateContentFrom(r, NormTexts)
        \/ DeleteFile(r)
        \/ ParseResponse(r)
        \/ Cleanup(r)
        \/ Collect(r)
        \/ Respond(r)

SpecNorm == InitNorm /\ [][NextNorm]_vars

\* Two requests served by the one event loop of uvicorn.run (main.py:228-231),
\* sharing the directory tmp.  Both handlers are coroutines whose only
\* suspension point is await file.read() (main.py:85): every other call is
\* synchronous, so a request runs from one read to the next without the
\* other one moving.
InitConc ==
    /\ files \in [Reqs -> {<<NamePdf>>, <<NamePngUpper>>}]
    /\ gemini_only = [r \in Reqs |-> FALSE]
    /\ rq = [r \in Reqs |-> InitRq(TRUE)]
    /\ cnt = [r \in Reqs |-> [ops |-> ZeroCnt(Len(files[r])), env |-> NoEnv(Len(files[r]))]]
    /\ InitShared

\* Request r is not running: its handler has not started, is suspended at
\* await file.read(), or has returned.
Suspended(r) == rq[r].pc \in {"off", "validate", "read", "rejected", "done"}

\* The event loop may run request r: every other request is suspended.
Turn(r) == \A s \in Reqs \ {r} : Suspended(s)

NextConc ==
    \E r \in Reqs :
        \/ Turn(r) /\ Validate(r)
        \/ Turn(r) /\ BeginFile(r)
        \/ Turn(r) /\ ReadUpload(r)
        \/ Turn(r) /\ WriteScratch(r)
        \/ Turn(r) /\ RejectNonPdf(r)
        \/ Turn(r) /\ UploadFile(r)
        \/ Turn(r) /\ GenerateContent(r)
        \/ Turn(r) /\ DeleteFile(r)
        \/ Turn(r) /\ ParseResponse(r)
        \/ Turn(r) /\ Cleanup(r)
        \/ Turn(r) /\ Collect(r)
        \/ Turn(r) /\ Respond(r)

SpecConc == InitConc /\ [][NextConc]_vars

\* Two runs of scan_documents on the same files, run 1 with gemini_only
\* false and run 2 with gemini_only true, stepped side by side.
InitPair ==
    /\ files \in [Reqs -> SeqsUpTo(Names, MaxFiles)]
    /\ \A r \in Reqs : files[r] = files[1]
    /\ gemini_only = [r \in Reqs |-> r = 2]
    /\ rq = [r \in Reqs |-> InitRq(TRUE)]
    /\ cnt = [r \in Reqs |-> [ops |-> ZeroCnt(Len(files[r])), env |-> NoEnv(Len(files[r]))]]
    /\ InitShared

\* How far run r has come: the statement it is at within the file it is at.
Rank(pc) ==
    CASE pc = "loop" -> 0
      [] pc = "read" -> 1
      [] pc = "write" -> 2
      [] pc = "dispatch" -> 3
      [] pc = "generate" -> 4
      [] pc = "delete_file" -> 5
      [] pc = "parse" -> 6
      [] pc = "finally" -> 7
      [] pc = "return" -> 8

Progress(r) ==
    IF rq[r].pc \in {"off", "validate"} THEN -1
    ELSE IF rq[r].pc \in {"rejected", "done"} THEN 9 * (MaxFiles + 1)
    ELSE 9 * rq[r].file_index + Rank(rq[r].pc)

\* Both runs are at the same statement of the same file.
InSync == Progress(1) = Progress(2)

\* Run 1 takes a step when the runs are level, run 2 when it is behind.
MayRun(r) == IF r = 1 THEN InSync ELSE ~InSync

\* The step run 2 takes meets the environment run 1 met at that step: the
\* same calls fail, the remote service gives the same text, and the scratch
\* name is not one run 1 is using (two runs side by side otherwise share the
\* scratch file, which has nothing to do with gemini_only).
SameEnvironment(r) ==
    r = 2 =>
        /\ cnt'[2].env = cnt[1].env
        /\ rq'[2].loc.response_text # << >> =>
              rq'[2].loc.response_text = rq[1].loc.response_text
        /\ rq'[2].loc.temp_file_path # NoPath =>
              rq'[2].loc.temp_file_path.token # rq[1].loc.temp_file_path.token

NextPair ==
    \E r \in Reqs :
        \/ MayRun(r) /\ Validate(r) /\ SameEnvironment(r)
        \/ MayRun(r) /\ BeginFile(r) /\ SameEnvironment(r)
        \/ MayRun(r) /\ ReadUpload(r) /\ SameEnvironment(r)
        \/ MayRun(r) /\ WriteScratch(r) /\ SameEnvironment(r)
        \/ MayRun(r) /\ RejectNonPdf(r) /\ SameEnvironment(r)
        \/ MayRun(r) /\ UploadFile(r) /\ SameEnvironment(r)
        \/ MayRun(r) /\ GenerateContent(r) /\ SameEnvironment(r)
        \/ MayRun(r) /\ DeleteFile(r) /\ SameEnvironment(r)
        \/ MayRun(r) /\ ParseResponse(r) /\ SameEnvironment(r)
        \/ MayRun(r) /\ Cleanup(r) /\ SameEnvironment(r)
        \/ MayRun(r) /\ Collect(r) /\ SameEnvironment(r)
        \/ MayRun(r) /\ Respond(r) /\ SameEnvironment(r)

SpecPair == InitPair /\ [][NextPair]_vars

\* ------------------------------------------------------------- properties
\* The summary request r returned, and its two lists (errors is << >> when
\* the key is absent).
Returned(r) == rq[r].pc = "done"

Content(r) == rq[r].response.content

ErrorsOf(r) == IF "errors" \in DOMAIN Content(r) THEN Content(r).errors ELSE << >>

ResultsOf(r) == Content(r).results

\* How many entries of list carry file_index i.
Occurrences(list, i) == Cardinality({k \in 1..Len(list) : list[k].file_index = i})

\* The part that was processed with file_index i.
PartOf(r, i) == rq[r].valid_files[i + 1]

\* The environment failed no step of part p, and part p is a PDF.
Unfailed(r, p) == cnt[r].env[p].fault = "none" /\ FileExt(files[r][p]) = ExtPdf

\* C1: when scan returns its summary, successful_extractions +
\* failed_extractions = total_files and every file_index of 0..total_files-1
\* is in exactly one entry of results and errors together.
C1_Partition ==
    \A r \in Reqs : Returned(r) =>
        /\ Content(r).successful_extractions + Content(r).failed_extractions
              = Content(r).total_files
        /\ Content(r).successful_extractions = Len(ResultsOf(r))
        /\ Content(r).failed_extractions = Len(ErrorsOf(r))
        /\ \A i \in 0..(Content(r).total_files - 1) :
              Occurrences(ResultsOf(r), i) + Occurrences(ErrorsOf(r), i) = 1

\* A summary of two files, one in results and one in errors.
C1_Witness ==
    \E r \in Reqs : /\ Returned(r)
                    /\ Content(r).total_files = 2
                    /\ Len(ResultsOf(r)) = 1
                    /\ Len(ErrorsOf(r)) = 1

\* C2: process_single_document never raises: when it returns, its value is
\* a FileResult or a FileError carrying the file_index and filename it was
\* called with, a FileError whenever a step failed or the file is not a
\* PDF; and a request that passed validation ends with the summary, every
\* failed file being an entry of errors with its index and filename.
C2_ProcessNeverRaises ==
    \A r \in Reqs :
        /\ rq[r].pc = "return" =>
              LET ret == rq[r].loc.ret
                  p == PartOf(r, rq[r].file_index)
              IN /\ "pending" \notin DOMAIN ret
                 /\ ret.file_index = rq[r].file_index
                 /\ ret.filename = files[r][p]
                 /\ ~Unfailed(r, p) => "error" \in DOMAIN ret
        /\ rq[r].pc \notin {"off", "validate", "rejected"} => rq[r].response.status \in {0, 200}
        /\ Returned(r) =>
              \A i \in 0..(Len(rq[r].valid_files) - 1) :
                  ~Unfailed(r, PartOf(r, i)) =>
                      \E k \in 1..Len(ErrorsOf(r)) :
                          /\ ErrorsOf(r)[k].file_index = i
                          /\ ErrorsOf(r)[k].filename = files[r][PartOf(r, i)]

\* process_single_document returns a FileError after the remote delete failed.
C2_Witness ==
    \E r \in Reqs : /\ rq[r].pc = "return"
                    /\ cnt[r].env[PartOf(r, rq[r].file_index)].fault = "delete_file"
                    /\ "error" \in DOMAIN rq[r].loc.ret

\* C3: a failed file does not abort the batch: in the summary every
\* retained file was processed exactly once, whatever happened to the files
\* before it, and a file is in results exactly when no step failed for it
\* and it is a PDF, in errors otherwise; two PDFs with the remote call
\* failing for the second only give results = [index 0], errors = [index 1]
\* and total_files = 2.
C3_FailureIsolated ==
    \A r \in Reqs : Returned(r) =>
        /\ \A i \in 0..(Len(rq[r].valid_files) - 1) :
              LET p == PartOf(r, i)
              IN /\ cnt[r].ops["process"][p] = 1
                 /\ Occurrences(ResultsOf(r), i) = IF Unfailed(r, p) THEN 1 ELSE 0
                 /\ Occurrences(ErrorsOf(r), i) = IF Unfailed(r, p) THEN 0 ELSE 1
        /\ ( /\ files[r] = <<NamePdf, NamePdf>>
             /\ cnt[r].env[1].fault = "none"
             /\ cnt[r].env[2].fault \in {"upload", "generate"} )
           => /\ Content(r).total_files = 2
              /\ Len(ResultsOf(r)) = 1 /\ ResultsOf(r)[1].file_index = 0
              /\ Len(ErrorsOf(r)) = 1 /\ ErrorsOf(r)[1].file_index = 1

\* Two PDFs, the remote call failed for the second only, the summary is returned.
C3_Witness ==
    \E r \in Reqs : /\ Returned(r)
                    /\ files[r] = <<NamePdf, NamePdf>>
                    /\ cnt[r].env[1].fault = "none"
                    /\ cnt[r].env[2].fault = "generate"

\* A filename that is empty or only whitespace.
Blank(filename) == Strip(filename) = << >>

\* Some file of request r with a filename that is not blank has an
\* extension outside the allowed set.
HasUnsupported(r) ==
    \E p \in Parts(r) : ~Blank(files[r][p]) /\ FileExt(files[r][p]) \notin allowed_extensions

\* No file of request r was read, staged or sent, and nothing is staged.
NothingProcessed(r) ==
    /\ \A op \in DOMAIN cnt[r].ops : \A p \in Parts(r) : cnt[r].ops[op][p] = 0
    /\ tmp = {}
    /\ \A h \in remote : h.req # r

\* C4: when a retained file has an extension outside the allowed set, the
\* request is rejected with the unsupported-type client error and no file
\* was read, no scratch file created and no remote call made, also when
\* other files of the batch are PDFs.
C4_UnsupportedRejectsFirst ==
    \A r \in Reqs : HasUnsupported(r) =>
        /\ rq[r].pc \in {"validate", "rejected"}
        /\ NothingProcessed(r)
        /\ rq[r].pc = "rejected" =>
              /\ rq[r].response.status = 400
              /\ rq[r].response.detail.msg = "Unsupported file type"
              /\ rq[r].response.detail.ext \notin allowed_extensions

\* ["a.pdf", "d.txt"] was rejected.
C4_Witness ==
    \E r \in Reqs : /\ files[r] = <<NamePdf, NameTxt>>
                    /\ rq[r].pc = "rejected"
                    /\ rq[r].response.detail.ext = <<".", "t", "x", "t">>

\* process_single_document has returned for the current file of r.
ProcessReturned(r) == rq[r].pc = "return"

\* C5 as stated: after process_single_document returns the scratch file of
\* that file is gone, and nothing is staged once scan has returned.
C5_ScratchAlwaysGone ==
    \A r \in Reqs :
        /\ ProcessReturned(r) => rq[r].loc.temp_file_path \notin tmp
        /\ Returned(r) => tmp = {}

\* C5, amended: after process_single_document returns, on every exit path,
\* os.remove was called once on the scratch file if it had been created, and
\* the file is gone unless that one call failed; after scan returns, the
\* only scratch files of the request that remain are those whose removal
\* failed.
C5_ScratchGoneUnlessRemoveFailed ==
    \A r \in Reqs :
        /\ ProcessReturned(r) =>
              LET p == PartOf(r, rq[r].file_index)
                  created == /\ cnt[r].ops["open"][p] = 1
                             /\ cnt[r].env[p].fault # "open"
              IN /\ cnt[r].ops["remove"][p] = IF created THEN 1 ELSE 0
                 /\ rq[r].loc.temp_file_path \in tmp => cnt[r].env[p].remove_failed
                 /\ (created /\ ~cnt[r].env[p].remove_failed)
                       => rq[r].loc.temp_file_path \notin tmp
        /\ Returned(r) =>
              \A path \in tmp :
                  /\ path.index \in 0..(Len(rq[r].valid_files) - 1)
                  /\ cnt[r].env[PartOf(r, path.index)].remove_failed

\* process_single_document returned a FileError after the remote call
\* failed, and the scratch file it had written is gone.
C5_Witness ==
    \E r \in Reqs : /\ ProcessReturned(r)
                    /\ cnt[r].env[PartOf(r, rq[r].file_index)].fault = "upload"
                    /\ cnt[r].ops["remove"][PartOf(r, rq[r].file_index)] = 1
                    /\ rq[r].loc.temp_file_path \notin tmp

\* C6: when upload and generation succeeded and the response parses,
\* process_single_document returns a FileResult whether or not the remote
\* delete succeeded.
C6_DeleteFailureNotMasking ==
    \A r \in Reqs :
        ( /\ ProcessReturned(r)
          /\ cnt[r].ops["generate"][PartOf(r, rq[r].file_index)] = 1
          /\ cnt[r].env[PartOf(r, rq[r].file_index)].fault \notin {"upload", "generate"}
          /\ JsonLoads(NormalizeResponse(rq[r].loc.response_text)).ok )
        => "error" \notin DOMAIN rq[r].loc.ret

\* Request r was rejected as an empty batch (HTTP 400, either message).
RejectedEmpty(r) ==
    /\ rq[r].pc = "rejected"
    /\ rq[r].response.status = 400
    /\ rq[r].response.detail.msg \in {"No valid files uploaded", "No valid files to process"}

\* Validation of request r is over.
Validated(r) == rq[r].pc \notin {"off", "validate"}

\* C7 as stated: scan rejects the request as an empty batch exactly when the
\* list is empty or no entry has a non-empty filename.
C7_EmptyBatchIffNoName ==
    \A r \in Reqs : Validated(r) =>
        (RejectedEmpty(r) <=> \A p \in Parts(r) : files[r][p] = << >>)

\* C7, amended: scan rejects the request as an empty batch (HTTP 400),
\* processing nothing, exactly when the list is empty or every filename is
\* empty or only whitespace; a batch with a filename that is not blank is
\* never rejected as empty.
C7_EmptyBatchIffAllBlank ==
    \A r \in Reqs : Validated(r) =>
        /\ RejectedEmpty(r) <=> \A p \in Parts(r) : Blank(files[r][p])
        /\ RejectedEmpty(r) => NothingProcessed(r)
        /\ (\A p \in Parts(r) : files[r][p] = << >>)
              => rq[r].response.detail.msg = "No valid files uploaded"

\* ["", " "] was rejected with "No valid files to process".
C7_Witness ==
    \E r \in Reqs : /\ files[r] = <<NameEmpty, NameBlank>>
                    /\ RejectedEmpty(r)
                    /\ rq[r].response.detail.msg = "No valid files to process"

\* The parts outside kept are never touched, and in the summary the parts
\* of kept, in their order, are the files 0..n-1: the k-th is the one entry
\* with file_index k, and nothing else is counted.
KeptLaw(r, kept) ==
    /\ \A p \in Parts(r) \ kept : \A op \in DOMAIN cnt[r].ops : cnt[r].ops[op][p] = 0
    /\ Returned(r) =>
          /\ Content(r).total_files = Cardinality(kept)
          /\ Len(ResultsOf(r)) + Len(ErrorsOf(r)) = Cardinality(kept)
          /\ \A p \in kept :
                LET k == Cardinality({q \in kept : q < p})
                    entries == {e \in {ResultsOf(r)[j] : j \in 1..Len(ResultsOf(r))}
                                       \cup {ErrorsOf(r)[j] : j \in 1..Len(ErrorsOf(r))} :
                                   e.file_index = k}
                IN /\ cnt[r].ops["process"][p] = 1
                   /\ Cardinality(entries) = 1
                   /\ \A e \in entries : e.filename = files[r][p]

\* C8 as stated: the files dropped are those with an empty filename, and
\* the k-th file with a non-empty filename is processed with file_index k.
C8_EmptyNamesDropped ==
    \A r \in Reqs : KeptLaw(r, {p \in Parts(r) : files[r][p] # << >>})

\* C8, amended: files whose filename is empty or only whitespace are
\* dropped: never read, no entry, not counted in total_files; the others
\* keep their order and the k-th of them (0-based) is processed with
\* file_index k, so the indices used are 0..n-1.
C8_BlankNamesDropped ==
    \A r \in Reqs : KeptLaw(r, {p \in Parts(r) : ~Blank(files[r][p])})

\* ["", "a.pdf"] returned a summary of one file, index 0 being a.pdf.
C8_Witness ==
    \E r \in Reqs : /\ Returned(r)
                    /\ files[r] = <<NameEmpty, NamePdf>>
                    /\ Content(r).total_files = 1
                    /\ cnt[r].ops["read"] = <<0, 1>>

\* The file_index values of list are strictly increasing.
Increasing(list) ==
    \A j, k \in 1..Len(list) : j < k => list[j].file_index < list[k].file_index

\* C9: in the summary the entries of results, and the entries of errors,
\* are in strictly increasing file_index order.
C9_InputOrder ==
    \A r \in Reqs : Returned(r) => Increasing(ResultsOf(r)) /\ Increasing(ErrorsOf(r))

\* A summary with two errors.
C9_Witness ==
    \E r \in Reqs : Returned(r) /\ Len(ErrorsOf(r)) = 2

\* The parts of r whose extension is allowed but is not .pdf.
ImageParts(r) ==
    {p \in Parts(r) : /\ FileExt(files[r][p]) \in allowed_extensions
                      /\ FileExt(files[r][p]) # <<".", "p", "d", "f">>}

\* No remote call was made for part p of r.
NoRemoteCall(r, p) ==
    /\ cnt[r].ops["upload"][p] = 0
    /\ cnt[r].ops["generate"][p] = 0
    /\ cnt[r].ops["delete_file"][p] = 0

\* C10 as stated: a file with an allowed extension other than .pdf always
\* yields a FileError naming that extension, with no remote call.
C10_ImageErrorNamesExtension ==
    \A r \in Reqs :
        (ProcessReturned(r) /\ PartOf(r, rq[r].file_index) \in ImageParts(r)) =>
            /\ "error" \in DOMAIN rq[r].loc.ret
            /\ EndsWith(rq[r].loc.ret.error, FileExt(files[r][PartOf(r, rq[r].file_index)]))
            /\ NoRemoteCall(r, PartOf(r, rq[r].file_index))

\* C10, amended: a file with an allowed extension other than .pdf passes
\* validation and always yields a FileError, with no remote call made for
\* it and without aborting the batch; the error names that extension unless
\* reading the upload or writing the scratch copy failed first, and then it
\* is that failure's message.  Only .pdf files reach the remote service.
C10_ImageAlwaysFileError ==
    \A r \in Reqs :
        /\ \A p \in Parts(r) :
              FileExt(files[r][p]) # <<".", "p", "d", "f">> => NoRemoteCall(r, p)
        /\ (ProcessReturned(r) /\ PartOf(r, rq[r].file_index) \in ImageParts(r)) =>
              LET p == PartOf(r, rq[r].file_index)
                  ret == rq[r].loc.ret
              IN /\ "error" \in DOMAIN ret
                 /\ cnt[r].env[p].fault \in {"none", "read", "open", "write"}
                 /\ cnt[r].env[p].fault = "none" =>
                       /\ EndsWith(ret.error, FileExt(files[r][p]))
                       /\ Len(ret.error) = 1 + Len(FileExt(files[r][p]))
                 /\ cnt[r].env[p].fault = "read" => ret.error = <<"read error">>
                 /\ cnt[r].env[p].fault = "open" => ret.error = <<"open fails">>
                 /\ cnt[r].env[p].fault = "write" => ret.error = <<"write fails">>
        /\ Returned(r) =>
              \A i \in 0..(Len(rq[r].valid_files) - 1) :
                  /\ cnt[r].ops["process"][PartOf(r, i)] = 1
                  /\ PartOf(r, i) \in ImageParts(r) =>
                        Occurrences(ErrorsOf(r), i) = 1 /\ Occurrences(ResultsOf(r), i) = 0

\* ["c.PNG", "a.pdf"]: the first is an error naming .png, the second a result.
C10_Witness ==
    \E r \in Reqs : /\ Returned(r)
                    /\ files[r] = <<NamePngUpper, NamePdf>>
                    /\ EndsWith(ErrorsOf(r)[1].error, <<".", "p", "n", "g">>)
                    /\ Len(ResultsOf(r)) = 1

\* C11: a failing removal of the scratch copy is swallowed: the finally
\* block leaves the value being returned as it was and hands it to scan,
\* os.remove is called at most once per file, and the request still ends
\* with the summary.
C11_CleanupFailureSwallowed ==
    /\ [][\A r \in Reqs :
            (rq[r].pc = "finally" /\ rq'[r].pc # "finally") =>
                /\ rq'[r].pc = "return"
                /\ rq'[r].loc.ret = rq[r].loc.ret]_vars
    /\ [](\A r \in Reqs : \A p \in Parts(r) :
            /\ cnt[r].ops["remove"][p] <= 1
            /\ cnt[r].env[p].remove_failed =>
                  /\ cnt[r].ops["remove"][p] = 1
                  /\ rq[r].pc \notin {"off", "validate", "rejected"}
                  /\ rq[r].response.status \in {0, 200})

\* os.remove failed and process_single_document returns a FileResult.
C11_Witness ==
    \E r \in Reqs : /\ ProcessReturned(r)
                    /\ cnt[r].env[PartOf(r, rq[r].file_index)].remove_failed
                    /\ "error" \notin DOMAIN rq[r].loc.ret

\* C12: the summary has the key "errors" exactly when at least one file
\* failed (failed_extractions > 0), and then the list is not empty; the key
\* "results" is always there.
C12_ErrorsKeyIffFailures ==
    \A r \in Reqs : Returned(r) =>
        /\ "errors" \in DOMAIN Content(r) <=> Content(r).failed_extractions > 0
        /\ "errors" \in DOMAIN Content(r) <=> Len(rq[r].errors) > 0
        /\ "errors" \in DOMAIN Content(r) => Content(r).errors # << >>
        /\ "results" \in DOMAIN Content(r)

\* Two files succeeded: the summary has no key "errors" and two results.
C12_Witness ==
    \E r \in Reqs : /\ Returned(r)
                    /\ "errors" \notin DOMAIN Content(r)
                    /\ Len(Content(r).results) = 2

\* C14: the data of every FileResult is a JSON object; a response whose
\* normalized text is not a JSON object (invalid JSON, or a JSON array) gives
\* a FileError for that file.
C14_DataIsObject ==
    \A r \in Reqs :
        /\ ProcessReturned(r) =>
              /\ "data" \in DOMAIN rq[r].loc.ret => rq[r].loc.ret.data.type = "object"
              /\ ( /\ cnt[r].env[PartOf(r, rq[r].file_index)].fault \in {"none", "parse"}
                   /\ cnt[r].ops["delete_file"][PartOf(r, rq[r].file_index)] = 1
                   /\ JsonLoads(NormalizeResponse(rq[r].loc.response_text)).value.type
                         # "object" )
                 => "error" \in DOMAIN rq[r].loc.ret
        /\ Returned(r) =>
              \A i \in 1..Len(ResultsOf(r)) : ResultsOf(r)[i].data.type = "object"

\* C19: when process_single_document returns, genai.delete_file has been
\* called for the handle it uploaded, also when the generation request
\* failed; no handle of a finished file is left without a delete attempt.
C19_DeleteAttemptedForEveryUpload ==
    \A r \in Reqs :
        /\ ProcessReturned(r) =>
              LET p == PartOf(r, rq[r].file_index)
              IN (cnt[r].ops["upload"][p] = 1 /\ cnt[r].env[p].fault # "upload")
                    => cnt[r].ops["delete_file"][p] = 1
        /\ Returned(r) =>
              \A h \in remote :
                  h.req = r => cnt[r].ops["delete_file"][PartOf(r, h.index)] = 1

\* C17: there is no retry: within one scan call process_single_document is
\* called at most once per file, the file's body is read at most once, at
\* most one upload and one generation request are issued for it; a file is
\* in errors at most once, only after its single attempt is over, and every
\* file that failed is in the returned errors exactly once.
C17_NoRetry ==
    \A r \in Reqs :
        /\ \A p \in Parts(r) :
              \A op \in {"process", "read", "upload", "generate"} :
                  cnt[r].ops[op][p] <= 1
        /\ \A i \in 0..(Len(rq[r].valid_files) - 1) :
              /\ Occurrences(rq[r].errors, i) <= 1
              /\ Occurrences(rq[r].errors, i) = 1 =>
                    /\ i < rq[r].file_index
                    /\ cnt[r].ops["process"][PartOf(r, i)] = 1
        /\ Returned(r) =>
              \A i \in 0..(Len(rq[r].valid_files) - 1) :
                  ~Unfailed(r, PartOf(r, i)) => Occurrences(ErrorsOf(r), i) = 1

\* The summary was returned for a batch whose first file failed at the
\* generation request: one read, one upload, one generation request, one
\* entry in errors.
C17_Witness ==
    \E r \in Reqs :
        /\ Returned(r)
        /\ Len(rq[r].valid_files) = 2
        /\ cnt[r].env[PartOf(r, 0)].fault = "generate"
        /\ cnt[r].ops["read"][PartOf(r, 0)] = 1
        /\ cnt[r].ops["upload"][PartOf(r, 0)] = 1
        /\ cnt[r].ops["generate"][PartOf(r, 0)] = 1
        /\ Occurrences(ErrorsOf(r), 0) = 1

\* process_single_document is running for the current file of r.
InFlight(r) ==
    rq[r].pc \in {"read", "write", "dispatch", "generate", "delete_file", "parse",
                  "finally", "return"}

\* The scratch files in tmp made for files of r whose removal has not failed.
OwnedScratch(r) ==
    {path \in tmp : /\ path.index < Len(rq[r].valid_files)
                    /\ ~cnt[r].env[PartOf(r, path.index)].remove_failed}

\* C18: within one request files are processed one at a time: nothing has
\* been done on a file after the current one; a file before the current one
\* is finished (its value is filed and the removal of its scratch copy was
\* attempted if the copy had been created); the current file is untouched
\* while the loop has not called process_single_document on it; and the
\* request holds at most one scratch file whose removal has not failed,
\* that of the file in flight.
C18_OneFileAtATime ==
    \A r \in Reqs :
        /\ \A i \in 0..(Len(rq[r].valid_files) - 1) :
              LET p == PartOf(r, i)
              IN /\ (i > rq[r].file_index \/ (i = rq[r].file_index /\ ~InFlight(r))) =>
                       \A op \in DOMAIN cnt[r].ops : cnt[r].ops[op][p] = 0
                 /\ (i = rq[r].file_index /\ InFlight(r)) => cnt[r].ops["process"][p] = 1
                 /\ i < rq[r].file_index =>
                       /\ cnt[r].ops["process"][p] = 1
                       /\ Occurrences(rq[r].results, i) + Occurrences(rq[r].errors, i) = 1
                       /\ cnt[r].ops["remove"][p] =
                             IF cnt[r].ops["open"][p] = 1 /\ cnt[r].env[p].fault # "open"
                             THEN 1 ELSE 0
        /\ Cardinality(OwnedScratch(r)) <= 1
        /\ \A path \in OwnedScratch(r) :
              /\ InFlight(r)
              /\ path = rq[r].loc.temp_file_path

\* The second file of a batch is at the generation request while the
\* scratch copy of the first one, whose removal failed, is still there.
C18_Witness ==
    \E r \in Reqs : /\ rq[r].pc = "generate"
                    /\ rq[r].file_index = 1
                    /\ Cardinality(tmp) = 2
                    /\ Cardinality(OwnedScratch(r)) = 1

\* The reference normalisation: trim; remove a leading json fence if
\* present, otherwise a leading plain fence if present; remove a trailing
\* fence if present; trim again.
RefTrim(s) ==
    LET kept == {i \in 1..Len(s) : s[i] \notin {" ", "\n", "\t"}}
    IN IF kept = {} THEN << >>
       ELSE SubSeq(s, CHOOSE i \in kept : \A j \in kept : i <= j,
                      CHOOSE i \in kept : \A j \in kept : i >= j)

RefHasPrefix(s, n, p) == Len(s) >= n /\ [i \in 1..n |-> s[i]] = p

RefNormalize(text) ==
    LET a == RefTrim(text)
        b == IF RefHasPrefix(a, 7, <<BQ, BQ, BQ, "j", "s", "o", "n">>)
             THEN [i \in 1..(Len(a) - 7) |-> a[i + 7]]
             ELSE IF RefHasPrefix(a, 3, <<BQ, BQ, BQ>>)
             THEN [i \in 1..(Len(a) - 3) |-> a[i + 3]]
             ELSE a
        c == IF /\ Len(b) >= 3
                /\ \A i \in 0..2 : b[Len(b) - i] = BQ
             THEN [i \in 1..(Len(b) - 3) |-> b[i]]
             ELSE b
    IN RefTrim(c)

\* The response of the current file has been parsed (or refused by
\* json.loads): process_single_document is past line 109.
Parsed(r) ==
    /\ rq[r].pc \in {"finally", "return"}
    /\ cnt[r].ops["delete_file"][PartOf(r, rq[r].file_index)] = 1
    /\ cnt[r].env[PartOf(r, rq[r].file_index)].fault \in {"none", "parse"}

\* C15: the text handed to json.loads is the reference normalisation of the
\* response, so the file's value is the FileResult of what the reference
\* text parses to, or a FileError when it does not parse; and for every
\* object text T, the responses T, json-fenced T and plain-fenced T, with
\* whitespace around, give a FileResult whose data is the object T denotes.
C15_NormalizationMatchesReference ==
    \A r \in Reqs :
        /\ rq[r].pc \in {"delete_file", "parse", "finally", "return"}
              /\ cnt[r].ops["generate"][PartOf(r, rq[r].file_index)] = 1
              /\ cnt[r].env[PartOf(r, rq[r].file_index)].fault # "generate"
           => NormalizeResponse(rq[r].loc.response_text)
                 = RefNormalize(rq[r].loc.response_text)
        /\ Parsed(r) =>
              LET ref == JsonLoads(RefNormalize(rq[r].loc.response_text))
              IN /\ ref.ok => /\ "data" \in DOMAIN rq[r].loc.ret
                              /\ rq[r].loc.ret.data = ref.value
                 /\ ~ref.ok => "error" \in DOMAIN rq[r].loc.ret
                 /\ \A T \in ObjectTexts :
                       rq[r].loc.response_text \in Wrapped(T) =>
                           /\ "data" \in DOMAIN rq[r].loc.ret
                           /\ rq[r].loc.ret.data = JsonLoads(T).value
                           /\ JsonLoads(T).ok

\* The response was the object with a fence inside a string, between a json
\* fence and a closing fence with whitespace around, and the file's value
\* is that object.
C15_Witness ==
    \E r \in Reqs :
        /\ Parsed(r)
        /\ rq[r].loc.response_text =
              <<" ">> \o FenceJson \o <<"\n">> \o TextMember \o <<"\n">> \o Fence \o <<"\n">>
        /\ "data" \in DOMAIN rq[r].loc.ret
        /\ rq[r].loc.ret.data = JsonMember

\* C16: no two files that are in flight at the same time share a scratch
\* path, also when they belong to different requests that share tmp.
C16_NoSharedScratchPath ==
    \A r \in Reqs : \A s \in Reqs \ {r} :
        (InFlight(r) /\ InFlight(s)) =>
            rq[r].loc.temp_file_path # rq[s].loc.temp_file_path

\* What a caller and the outside world see of run r: where it is, the
\* calls it has made on each file (reads, scratch writes and removals,
\* remote calls), the value of the file in hand, the lists and the response.
Observed(r) ==
    [pc |-> rq[r].pc, file_index |-> rq[r].file_index,
     valid_files |-> rq[r].valid_files, ops |-> cnt[r].ops,
     file_ext |-> rq[r].loc.file_ext, ret |-> rq[r].loc.ret,
     results |-> rq[r].results, errors |-> rq[r].errors,
     response |-> rq[r].response]

====
